---- MODULE Spec2Model ----
(***************************************************************************)
(* Progress-reporting core of the video editor front-end:                  *)
(*   - run_ffmpeg_with_progress (src/src/commands.rs): the byte-at-a-time  *)
(*     line reader over the child's stderr, the Duration / time= extractor *)
(*     and the exit-status check;                                          *)
(*   - the five operations that call it (combine, compress, add music,     *)
(*     timelapse, info);                                                   *)
(*   - the worker thread of execute_command (src/src/tui/mod.rs) that      *)
(*     forwards every callback event into the mpsc channel and ends with   *)
(*     Done or Error;                                                      *)
(*   - the interactive loop of run (src/src/tui/mod.rs) with handle_events *)
(*     (src/src/tui/events.rs): draw, drain the channel, test running,     *)
(*     handle one terminal event, start a worker when asked to;            *)
(*   - the external process as far as the worker can observe it: it writes *)
(*     to two pipes, of which only stderr is ever read.                    *)
(*                                                                         *)
(* Bytes of the child's stderr are modelled by classes: the two terminator *)
(* bytes, and runs of non-terminator bytes ("chunks") that the reader      *)
(* treats alike (buf.push) and that the two regexes and starts_with tell   *)
(* apart.  Seconds are whole numbers; a fraction is an exact rational      *)
(* [num, den] in lowest terms.                                             *)
(***************************************************************************)
EXTENDS Integers, Sequences, FiniteSets, TLC

VARIABLES
    w_tab,                \* active_tab as captured by the worker closure
    wpc,                  \* position of the worker thread
    consumed,             \* bytes read from the child's stderr so far, then how it ended
    buf,                  \* buf: bytes accumulated since the last terminator
    lines,                \* every `line` the read loop has built, in order
    total_duration_secs,  \* total_duration_secs
    exit_status,          \* <<status>> once child.wait() has returned, <<>> before
    res,                  \* the operation's Result<()> once it has returned
    sent,                 \* every tx.send of this worker, in order
    chan,                 \* the mpsc channel: messages sent and not yet received
    threads,              \* worker threads spawned and not yet finished
    child,                \* the external process: none, running, blocked, exited
    stdout_pipe,          \* chunks the child wrote to its piped stdout, never read
    running,              \* app.running
    is_processing,        \* app.is_processing
    is_complete,          \* app.is_complete
    progress,             \* app.progress
    logs,                 \* app.logs
    message,              \* app.message
    active_tab,           \* app.active_tab
    selected_field,       \* app.selected_field
    fields,               \* the value of each InputField of app, by field name
    pc,                   \* position of the interactive loop
    key,                  \* the event handle_events last handled
    should_run,           \* what handle_events last returned (FALSE on Err)
    applied,              \* messages received since the last thread::spawn, in order
    spawned               \* number of thread::spawn calls so far

\* what a worker step leaves alone in the interactive loop
uiVars ==
    <<running, is_processing, is_complete, progress, logs, message, active_tab,
      selected_field, fields, pc, key, should_run, applied, spawned>>

vars ==
    <<w_tab, wpc, consumed, buf, lines, total_duration_secs, exit_status, res, sent,
      chan, threads, child, stdout_pipe, uiVars>>

----------------------------------------------------------------------------
(* Bounds *)

\* bytes the child writes to stderr, progress-marker alphabet
MaxStreamLen == 5
\* bytes the child writes to stderr, raw byte alphabet
MaxRawLen == 5
\* bytes the child writes to stderr when every operation is explored
MaxWorkerLen == 3
\* bytes the child writes to stderr, frame= alphabet
MaxFrameLen == 5
\* bytes the child writes to stderr when the interactive loop is explored
MaxUiLen == 1
\* thread::spawn calls explored in one run of the interactive loop
MaxSpawns == 2
\* chunks the stdout pipe holds before a further write blocks
PipeCapacity == 2
\* characters a field holds at most after input or autocomplete
MaxFieldLen == 4
\* fields that hold a text other than the one App::new() gave them
MaxEdited == 1

----------------------------------------------------------------------------
(* Byte classes *)

LF == "\\n"
CR == "\\r"
Terminators == {LF, CR}

\* a byte that is not valid UTF-8 on its own, and what from_utf8_lossy makes of it
BadByte == "0xFF"
Replacement == "U+FFFD"

FramePrefix == "frame="
PlainText == "x"

DurationChunks == {"Duration: 00:00:00.00", "Duration: 00:00:10.00", "Duration: 00:01:30.00"}
TimeChunks == {"time=00:00:15.00", "time=00:00:45.00"}

\* alphabet of the progress-extractor exploration
ProgressBytes == {LF} \cup DurationChunks \cup TimeChunks
\* alphabet of the line-reader exploration
RawBytes == {LF, CR, PlainText, BadByte, FramePrefix}
\* alphabet of the log-policy exploration
FrameBytes == {LF, PlainText, FramePrefix, "Duration: 00:00:10.00", "time=00:00:15.00"}
\* alphabet when every operation is explored
WorkerBytes == {LF, CR, FramePrefix, "Duration: 00:00:10.00", "time=00:00:15.00"}
\* alphabet when the interactive loop is explored
UiBytes == {LF, "time=00:00:15.00"}

Tabs == {"Combine", "Compress", "AddMusic", "Timelapse", "Info"}

\* exit codes of the child: success and one failure
ExitCodes == {0, 1}

----------------------------------------------------------------------------
(* ProgressInfo and AppEvent *)

Log(line) == [type |-> "Log", line |-> line]
Percentage(p) == [type |-> "Percentage", p |-> p]

Progress(info) == [kind |-> "Progress", info |-> info]
Done == [kind |-> "Done"]
Error(e) == [kind |-> "Error", msg |-> e]

\* the closure |info| { let _ = tx.send(AppEvent::Progress(info)); } applied to a
\* sequence of callback events
callback(events) == [i \in 1..Len(events) |-> Progress(events[i])]

\* tx.send(m) for each m of msgs, the result dropped (let _ =): the message is queued
\* while the receiver lives, and lost once run() has returned and dropped it
Send(msgs) ==
    /\ sent' = sent \o msgs
    /\ chan' = (IF pc = "exited" THEN chan ELSE chan \o msgs)

\* anyhow messages: the text and, for "{}"-formatted ones, the value formatted in
Msg(text) == [text |-> text, status |-> <<>>]
MsgWithStatus(text, status) == [text |-> text, status |-> <<status>>]

\* Result<()>; NotReturned while the operation is still running
Ok == [state |-> "Ok", msg |-> Msg("")]
Err(m) == [state |-> "Err", msg |-> m]
NotReturned == [state |-> "running", msg |-> Msg("")]

----------------------------------------------------------------------------
(* f64 fractions as exact rationals *)

RECURSIVE GCD(_, _)
GCD(a, b) == IF b = 0 THEN a ELSE GCD(b, a % b)

Ratio(n, d) == LET g == GCD(n, d) IN [num |-> n \div g, den |-> d \div g]
One == [num |-> 1, den |-> 1]
Zero == [num |-> 0, den |-> 1]

Leq(p, q) == p.num * q.den <= q.num * p.den

\* Fraction with the .min(1.0) left out
Fraction_Unclamped(current_secs, total) == Ratio(current_secs, total)

\* (current_secs / total_duration_secs).min(1.0), total_duration_secs > 0
Fraction(current_secs, total) ==
    IF current_secs >= total THEN One ELSE Ratio(current_secs, total)

----------------------------------------------------------------------------
(* The two regexes *)

\* captures of r"Duration: (\d+):(\d+):(\d+(?:\.\d+)?)" in one chunk
DurationCaps(c) ==
    CASE c = "Duration: 00:00:00.00" -> <<0, 0, 0>>
      [] c = "Duration: 00:00:10.00" -> <<0, 0, 10>>
      [] c = "Duration: 00:01:30.00" -> <<0, 1, 30>>

\* captures of r"time=(\d+):(\d+):(\d+(?:\.\d+)?)" in one chunk
TimeCaps(c) ==
    CASE c = "time=00:00:15.00" -> <<0, 0, 15>>
      [] c = "time=00:00:45.00" -> <<0, 0, 45>>

\* Regex::captures: the leftmost match in the line, if any
FirstIn(line, S) ==
    LET hits == {i \in 1..Len(line) : line[i] \in S}
    IN  IF hits = {} THEN 0 ELSE CHOOSE i \in hits : \A j \in hits : i <= j

\* Secs with the minutes left out
Secs_NoMinutes(caps) == caps[1] * 3600 + caps[3]

\* h * 3600.0 + m * 60.0 + s
Secs(caps) == caps[1] * 3600 + caps[2] * 60 + caps[3]

\* String::from_utf8_lossy(&buf)
from_utf8_lossy(bytes) ==
    [i \in 1..Len(bytes) |-> IF bytes[i] = BadByte THEN Replacement ELSE bytes[i]]

starts_with_frame(line) == Len(line) > 0 /\ line[1] = FramePrefix

----------------------------------------------------------------------------
(* run_ffmpeg_with_progress: what one completed line does *)

\* LogEvents without the frame= filter (the code before the filter was added)
LogEvents_All(line) == <<Log(line)>>

\* if !line.starts_with("frame=") { callback(Log(line.clone())) }
LogEvents(line) ==
    IF ~starts_with_frame(line) THEN <<Log(line)>> ELSE <<>>

\* if let Some(caps) = duration_regex.captures(&line) { total_duration_secs = ... }
UpdateTotal(line, total) ==
    LET i == FirstIn(line, DurationChunks)
    IN  IF i > 0 THEN Secs(DurationCaps(line[i])) ELSE total

\* PercentageEvents with the total_duration_secs > 0.0 test left out
PercentageEvents_Unguarded(line, total) ==
    LET i == FirstIn(line, TimeChunks)
    IN  IF i > 0
        THEN <<Percentage(Fraction(Secs(TimeCaps(line[i])), total))>>
        ELSE <<>>

\* if total_duration_secs > 0.0 { if let Some(caps) = time_regex.captures(&line) {...} }
PercentageEvents(line, total) ==
    LET i == FirstIn(line, TimeChunks)
    IN  IF total > 0 /\ i > 0
        THEN <<Percentage(Fraction(Secs(TimeCaps(line[i])), total))>>
        ELSE <<>>

\* LineEvents with the Percentage computed and sent before the Log
LineEvents_PercentageFirst(line, total) ==
    PercentageEvents(line, UpdateTotal(line, total)) \o LogEvents(line)

\* the events of one completed line, in callback order
LineEvents(line, total) ==
    LogEvents(line) \o PercentageEvents(line, UpdateTotal(line, total))

\* ReadStep with buf.clear() left out
ReadStep_NoClear(b) ==
    IF b \in Terminators
    THEN IF buf # <<>>
         THEN LET line == from_utf8_lossy(buf)
              IN  /\ lines' = Append(lines, line)
                  /\ Send(callback(LineEvents(line, total_duration_secs)))
                  /\ total_duration_secs' = UpdateTotal(line, total_duration_secs)
                  /\ UNCHANGED buf
         ELSE UNCHANGED <<lines, sent, chan, total_duration_secs, buf>>
    ELSE /\ buf' = Append(buf, b)
         /\ UNCHANGED <<lines, sent, chan, total_duration_secs>>

\* ReadStep with the !buf.is_empty() test left out
ReadStep_NoEmptyGuard(b) ==
    IF b \in Terminators
    THEN LET line == from_utf8_lossy(buf)
         IN  /\ lines' = Append(lines, line)
             /\ Send(callback(LineEvents(line, total_duration_secs)))
             /\ total_duration_secs' = UpdateTotal(line, total_duration_secs)
             /\ buf' = <<>>
    ELSE /\ buf' = Append(buf, b)
         /\ UNCHANGED <<lines, sent, chan, total_duration_secs>>

\* one iteration of the read loop on byte b (Ok(_) arm)
ReadStep(b) ==
    IF b \in Terminators
    THEN IF buf # <<>>
         THEN LET line == from_utf8_lossy(buf)
              IN  /\ lines' = Append(lines, line)
                  /\ Send(callback(LineEvents(line, total_duration_secs)))
                  /\ total_duration_secs' = UpdateTotal(line, total_duration_secs)
                  /\ buf' = <<>>
         ELSE UNCHANGED <<lines, sent, chan, total_duration_secs, buf>>
    ELSE /\ buf' = Append(buf, b)
         /\ UNCHANGED <<lines, sent, chan, total_duration_secs>>

\* reader.read(&mut byte) returning Ok(1) with a byte of alphabet S, the child
\* having written fewer than max bytes so far
Read(S, max) ==
    /\ wpc = "reading"
    /\ child = "running"
    /\ Len(consumed) < max
    /\ \E b \in S :
        /\ consumed' = Append(consumed, b)
        /\ ReadStep(b)
    /\ UNCHANGED <<w_tab, wpc, exit_status, res, threads, child, stdout_pipe, uiVars>>

ReadProgressByte == Read(ProgressBytes, MaxStreamLen)
ReadRawByte == Read(RawBytes, MaxRawLen)
ReadWorkerByte == Read(WorkerBytes, MaxWorkerLen)
ReadFrameByte == Read(FrameBytes, MaxFrameLen)
ReadUiByte == Read(UiBytes, MaxUiLen)

\* ReadEof that treats the end of the stream as a terminator (as BufRead::lines does)
ReadEof_Flush ==
    /\ wpc = "reading"
    /\ child = "running"
    /\ consumed' = Append(consumed, "EOF")
    /\ wpc' = "closed"
    /\ IF buf # <<>>
       THEN LET line == from_utf8_lossy(buf)
            IN  /\ lines' = Append(lines, line)
                /\ Send(callback(LineEvents(line, total_duration_secs)))
                /\ total_duration_secs' = UpdateTotal(line, total_duration_secs)
       ELSE UNCHANGED <<lines, sent, chan, total_duration_secs>>
    /\ UNCHANGED <<w_tab, buf, exit_status, res, threads, child, stdout_pipe, uiVars>>

\* Ok(0) => break
ReadEof ==
    /\ wpc = "reading"
    /\ child = "running"
    /\ consumed' = Append(consumed, "EOF")
    /\ wpc' = "closed"
    /\ UNCHANGED <<w_tab, buf, lines, total_duration_secs, exit_status, res, sent, chan, threads, child, stdout_pipe, uiVars>>

\* ReadErr that propagates the error (reader.read(&mut byte)? instead of the match arm)
ReadErr_Propagates ==
    /\ wpc = "reading"
    /\ consumed' = Append(consumed, "ERR")
    /\ wpc' = "returned"
    /\ res' = Err(Msg("read: io error"))
    /\ UNCHANGED <<w_tab, buf, lines, total_duration_secs, exit_status, sent, chan, threads, child, stdout_pipe, uiVars>>

\* Err(_) => break
ReadErr ==
    /\ wpc = "reading"
    /\ consumed' = Append(consumed, "ERR")
    /\ wpc' = "closed"
    /\ UNCHANGED <<w_tab, buf, lines, total_duration_secs, exit_status, res, sent, chan, threads, child, stdout_pipe, uiVars>>

\* FinalEvents with the forced Percentage(1.0) left out
FinalEvents_None == <<>>

\* the events after a successful exit: callback(ProgressInfo::Percentage(1.0))
FinalEvents == <<Percentage(One)>>

\* FailureMsg that does not format the status in
FailureMsg_NoStatus(status) == Msg("ffmpeg failed")

\* anyhow!("ffmpeg failed with status: {}", status)
FailureMsg(status) == MsgWithStatus("ffmpeg failed with status: ", status)

\* child.wait()?, the status check, the forced Percentage(1.0), the return
Wait ==
    /\ wpc = "closed"
    /\ \/ \E status \in ExitCodes :
            /\ child = "running"
            /\ child' = "exited"
            /\ exit_status' = <<status>>
            /\ IF status # 0
               THEN /\ res' = Err(FailureMsg(status))
                    /\ UNCHANGED <<sent, chan>>
               ELSE /\ Send(callback(FinalEvents))
                    /\ res' = Ok
       \/ /\ res' = Err(Msg("wait: io error"))
          /\ UNCHANGED <<exit_status, sent, chan, child>>
    /\ wpc' = "returned"
    /\ UNCHANGED <<w_tab, consumed, buf, lines, total_duration_secs, threads, stdout_pipe, uiVars>>

\* Spawn that reports the failure through the callback as well
Spawn_LogsFailure ==
    /\ wpc = "spawn"
    /\ \/ /\ wpc' = "reading"
          /\ buf' = <<>>
          /\ total_duration_secs' = 0
          /\ child' = "running"
          /\ stdout_pipe' = 0
          /\ UNCHANGED <<res, sent, chan>>
       \/ /\ wpc' = "returned"
          /\ res' = Err(Msg("Failed to start ffmpeg"))
          /\ Send(callback(<<Log(<<"Failed to start ffmpeg">>)>>))
          /\ UNCHANGED <<buf, total_duration_secs, child, stdout_pipe>>
    /\ UNCHANGED <<w_tab, consumed, lines, exit_status, threads, uiVars>>

\* command.spawn().context("Failed to start ffmpeg")?, then the locals of the loop
Spawn ==
    /\ wpc = "spawn"
    /\ \/ /\ wpc' = "reading"
          /\ buf' = <<>>
          /\ total_duration_secs' = 0
          /\ child' = "running"
          /\ stdout_pipe' = 0
          /\ UNCHANGED res
       \/ /\ wpc' = "returned"
          /\ res' = Err(Msg("Failed to start ffmpeg"))
          /\ UNCHANGED <<buf, total_duration_secs, child, stdout_pipe>>
    /\ UNCHANGED <<w_tab, consumed, lines, exit_status, sent, chan, threads, uiVars>>

----------------------------------------------------------------------------
(* The operations, up to their call of run_ffmpeg_with_progress *)

Greeting(tab) ==
    CASE tab = "Combine" -> <<Log(<<"Combining videos using ffmpeg filter...">>)>>
      [] tab = "Compress" -> <<Log(<<"Compressing video...">>)>>
      [] tab = "AddMusic" -> <<Log(<<"Adding music...">>)>>
      [] tab = "Timelapse" -> <<Log(<<"Creating timelapse...">>)>>

\* the operation returns early with Err(m)
ReturnErr(m) ==
    /\ wpc' = "returned"
    /\ res' = Err(m)

\* the operation goes on to run_ffmpeg_with_progress
CallRunner ==
    /\ wpc' = "spawn"
    /\ UNCHANGED res

\* probe_has_audio(path)?: ffprobe cannot be run, or fails, or answers
ProbeThen ==
    \/ ReturnErr(Msg("Failed to run ffprobe"))
    \/ ReturnErr(Msg("ffprobe failed"))
    \/ CallRunner

compress_video ==
    /\ wpc = "start" /\ w_tab = "Compress"
    /\ Send(callback(Greeting(w_tab)))
    /\ CallRunner
    /\ UNCHANGED <<w_tab, consumed, buf, lines, total_duration_secs, exit_status, threads, child, stdout_pipe, uiVars>>

timelapse ==
    /\ wpc = "start" /\ w_tab = "Timelapse"
    /\ Send(callback(Greeting(w_tab)))
    /\ CallRunner
    /\ UNCHANGED <<w_tab, consumed, buf, lines, total_duration_secs, exit_status, threads, child, stdout_pipe, uiVars>>

combine_videos ==
    /\ wpc = "start" /\ w_tab = "Combine"
    /\ Send(callback(Greeting(w_tab)))
    /\ \/ ReturnErr(Msg("No input files provided"))
       \/ ProbeThen
    /\ UNCHANGED <<w_tab, consumed, buf, lines, total_duration_secs, exit_status, threads, child, stdout_pipe, uiVars>>

add_music ==
    /\ wpc = "start" /\ w_tab = "AddMusic"
    /\ Send(callback(Greeting(w_tab)))
    /\ ProbeThen
    /\ UNCHANGED <<w_tab, consumed, buf, lines, total_duration_secs, exit_status, threads, child, stdout_pipe, uiVars>>

get_info ==
    /\ wpc = "start" /\ w_tab = "Info"
    /\ \/ /\ ReturnErr(Msg("Failed to execute ffprobe"))
          /\ UNCHANGED <<sent, chan>>
       \/ /\ Send(callback(<<Log(<<"ffprobe stderr">>)>>))
          /\ ReturnErr(Msg("ffprobe failed"))
       \/ /\ Send(callback(<<Log(<<"ffprobe stderr">>)>>))
          /\ wpc' = "returned"
          /\ res' = Ok
    /\ UNCHANGED <<w_tab, consumed, buf, lines, total_duration_secs, exit_status, threads, child, stdout_pipe, uiVars>>

----------------------------------------------------------------------------
(* execute_command: the end of the worker closure *)

\* match res { Ok(_) => tx.send(Done), Err(e) => tx.send(Error(e.to_string())) }
Terminal(r) == IF r.state = "Ok" THEN Done ELSE Error(r.msg)

\* WorkerEnd that sends nothing when the operation failed
WorkerEnd_SilentOnErr ==
    /\ wpc = "returned"
    /\ Send(IF res.state = "Ok" THEN <<Done>> ELSE <<>>)
    /\ wpc' = "finished"
    /\ threads' = threads - 1
    /\ UNCHANGED <<w_tab, consumed, buf, lines, total_duration_secs, exit_status, res, child, stdout_pipe, uiVars>>

WorkerEnd ==
    /\ wpc = "returned"
    /\ Send(<<Terminal(res)>>)
    /\ wpc' = "finished"
    /\ threads' = threads - 1
    /\ UNCHANGED <<w_tab, consumed, buf, lines, total_duration_secs, exit_status, res, child, stdout_pipe, uiVars>>

----------------------------------------------------------------------------
(* The external process's standard output *)

\* the child writes one more chunk to its piped stdout, which nobody reads: the
\* write lands in the pipe, or blocks for good once the pipe is full
ChildWritesStdout ==
    /\ child = "running"
    /\ IF stdout_pipe < PipeCapacity
       THEN /\ stdout_pipe' = stdout_pipe + 1
            /\ UNCHANGED child
       ELSE /\ child' = "blocked"
            /\ UNCHANGED stdout_pipe
    /\ UNCHANGED <<w_tab, wpc, consumed, buf, lines, total_duration_secs, exit_status,
                   res, sent, chan, threads, uiVars>>

----------------------------------------------------------------------------
(* App: the fields the interactive loop reads and writes *)

\* ActiveTab and the order next_tab and prev_tab walk it in
TabOrder == <<"Combine", "Compress", "AddMusic", "Timelapse", "Info">>
TabIndex(tab) == CHOOSE i \in 1..Len(TabOrder) : TabOrder[i] = tab

next_tab(tab) == TabOrder[(TabIndex(tab) % Len(TabOrder)) + 1]
prev_tab(tab) == TabOrder[((TabIndex(tab) + Len(TabOrder) - 2) % Len(TabOrder)) + 1]

get_field_count(tab) ==
    CASE tab = "Combine" -> 2
      [] tab = "Compress" -> 3
      [] tab = "AddMusic" -> 4
      [] tab = "Timelapse" -> 3
      [] tab = "Info" -> 1

\* next_field that does not wrap
next_field_NoWrap(tab, f) == f + 1

next_field(tab, f) == IF f < get_field_count(tab) - 1 THEN f + 1 ELSE 0
prev_field(tab, f) == IF f > 0 THEN f - 1 ELSE get_field_count(tab) - 1

\* the value of every InputField as App::new() sets it, one character per element
InitialFields ==
    [combine_inputs |-> <<>>, combine_output |-> <<>>,
     compress_input |-> <<>>, compress_output |-> <<>>, compress_crf |-> <<"2", "3">>,
     music_video |-> <<>>, music_audio |-> <<>>, music_output |-> <<>>,
     music_reduce |-> <<"1", ".", "0">>,
     time_input |-> <<>>, time_output |-> <<>>, time_speed |-> <<"1", "0", ".", "0">>,
     info_input |-> <<>>]

\* get_active_field_mut: the name of the field that the tab and selected_field pick
get_active_field_mut(tab, f) ==
    CASE tab = "Combine" ->
            (CASE f = 0 -> "combine_inputs" [] f = 1 -> "combine_output"
               [] OTHER -> "combine_inputs")
      [] tab = "Compress" ->
            (CASE f = 0 -> "compress_input" [] f = 1 -> "compress_output"
               [] f = 2 -> "compress_crf" [] OTHER -> "compress_input")
      [] tab = "AddMusic" ->
            (CASE f = 0 -> "music_video" [] f = 1 -> "music_audio"
               [] f = 2 -> "music_output" [] f = 3 -> "music_reduce"
               [] OTHER -> "music_video")
      [] tab = "Timelapse" ->
            (CASE f = 0 -> "time_input" [] f = 1 -> "time_output"
               [] f = 2 -> "time_speed" [] OTHER -> "time_input")
      [] tab = "Info" -> "info_input"

\* the character class of KeyCode::Char(c) and the path separator
TypedChar == "c"
Separator == "/"

\* what read_dir and is_dir can make autocomplete add to the text it completes:
\* nothing (no directory, no match, or the match is the text itself), the rest of a
\* file name, or the rest of a directory name and the separator
Offers == {<<>>, <<TypedChar>>, <<TypedChar, Separator>>}

\* input(c): field.value.push(c)
input(fs, tab, f, c) ==
    [fs EXCEPT ![get_active_field_mut(tab, f)] = Append(@, c)]

\* backspace(): field.value.pop()
backspace(fs, tab, f) ==
    [fs EXCEPT ![get_active_field_mut(tab, f)] =
                    IF @ = <<>> THEN @ ELSE SubSeq(@, 1, Len(@) - 1)]

\* autocomplete(): the first match of the word being typed replaces it; a match
\* starts with that word, so the text grows by what the file system offers
autocomplete(fs, tab, f, offer) ==
    [fs EXCEPT ![get_active_field_mut(tab, f)] = @ \o offer]

\* the part of App that handle_events works on
App ==
    [running |-> running, is_processing |-> is_processing, is_complete |-> is_complete,
     message |-> message, active_tab |-> active_tab, selected_field |-> selected_field,
     fields |-> fields]

\* the methods of App that the keys call, on the part of App above
App_next_tab(app) ==
    [app EXCEPT !.active_tab = next_tab(app.active_tab), !.selected_field = 0,
                !.message = <<>>]
App_prev_tab(app) ==
    [app EXCEPT !.active_tab = prev_tab(app.active_tab), !.selected_field = 0,
                !.message = <<>>]
App_next_field(app) ==
    [app EXCEPT !.selected_field = next_field(app.active_tab, app.selected_field)]
App_prev_field(app) ==
    [app EXCEPT !.selected_field = prev_field(app.active_tab, app.selected_field)]
App_input(app, c) ==
    [app EXCEPT !.fields = input(@, app.active_tab, app.selected_field, c)]
App_backspace(app) ==
    [app EXCEPT !.fields = backspace(@, app.active_tab, app.selected_field)]
App_autocomplete(app, offer) ==
    [app EXCEPT !.fields = autocomplete(@, app.active_tab, app.selected_field, offer)]

\* the texts stay within the bounds of the exploration
WithinBounds(fs) ==
    /\ {n \in DOMAIN fs : fs[n] # InitialFields[n] /\ Len(fs[n]) > MaxFieldLen} = {}
    /\ Cardinality({n \in DOMAIN fs : fs[n] # InitialFields[n]}) <= MaxEdited

\* the status texts
Starting == <<"Starting...">>
AlreadyProcessing == <<"Already processing...">>
Completed == <<"Process Completed Successfully! Press any key to continue.">>

\* e as "{}" prints it
Display(e) == <<e.text>> \o [i \in 1..Len(e.status) |-> ToString(e.status[i])]

\* ErrorText without the "Error: " prefix
ErrorText_NoPrefix(e) == Display(e)

\* format!("Error: {}", e)
ErrorText(e) == <<"Error: ">> \o Display(e)

----------------------------------------------------------------------------
(* handle_events *)

\* the key events handle_events tells apart; "Other" is any other key code
Keys ==
    {"Ctrl+C", "Tab", "BackTab", "Up", "Down", "Right", "Ctrl+E", "Shift+Enter",
     "Enter", "Char", "Backspace", "Esc", "Other"}

\* the poll timed out, or the event was no key event, or poll/read failed
NoEvent == "none"

\* what the file system can offer when event k is handled: it is asked on the two
\* autocomplete keys only
OffersFor(k) == IF k \in {"Tab", "Right"} THEN Offers ELSE {<<>>}

\* keys explored with the interactive loop: the two starting keys, the two quitting
\* keys, the tab key and one key without effect
UiKeys == {"Ctrl+E", "Shift+Enter", "Ctrl+C", "Esc", "BackTab", "Other"}

\* match key.code: the App the arm leaves and the bool handle_events returns after
\* it, offer being what the file system offers to autocomplete
match_key(app, k, offer) ==
    CASE k = "Ctrl+C" -> [app |-> [app EXCEPT !.running = FALSE], ret |-> TRUE]
      [] k = "Tab" -> [app |-> App_autocomplete(app, offer), ret |-> FALSE]
      [] k = "BackTab" -> [app |-> App_next_tab(app), ret |-> FALSE]
      [] k = "Up" -> [app |-> App_prev_field(app), ret |-> FALSE]
      [] k = "Down" -> [app |-> App_next_field(app), ret |-> FALSE]
      [] k = "Right" -> [app |-> App_autocomplete(app, offer), ret |-> FALSE]
      [] k = "Ctrl+E" -> [app |-> app, ret |-> TRUE]
      [] k = "Shift+Enter" -> [app |-> app, ret |-> TRUE]
      [] k = "Enter" -> [app |-> App_next_field(app), ret |-> FALSE]
      [] k = "Char" -> [app |-> App_input(app, TypedChar), ret |-> FALSE]
      [] k = "Backspace" -> [app |-> App_backspace(app), ret |-> FALSE]
      [] k = "Esc" -> [app |-> [app EXCEPT !.running = FALSE], ret |-> FALSE]
      [] OTHER -> [app |-> app, ret |-> FALSE]

\* handle_events that goes to the match before it looks at is_complete
handle_events_MatchFirst(app, k, offer) ==
    IF k = NoEvent
    THEN [app |-> app, ret |-> FALSE]
    ELSE match_key(app, k, offer)

\* handle_events on event k: the App it leaves and the bool it returns
handle_events(app, k, offer) ==
    IF k = NoEvent
    THEN [app |-> app, ret |-> FALSE]
    ELSE IF app.is_complete
    THEN [app |-> [app EXCEPT !.is_processing = FALSE, !.is_complete = FALSE,
                              !.message = <<>>],
          ret |-> FALSE]
    ELSE match_key(app, k, offer)

----------------------------------------------------------------------------
(* run: the interactive loop *)

\* Rejected that lets every request through
Rejected_Never(app) == FALSE

\* Rejected that tests is_complete in the place of is_processing
Rejected_WhenComplete(app) == app.is_complete

\* if app.is_processing: the request to start is turned down
Rejected(app) == app.is_processing

\* execute_command: thread::spawn of a worker on the active tab
execute_command(tab) ==
    /\ w_tab' = tab
    /\ wpc' = "start"
    /\ consumed' = <<>>
    /\ buf' = <<>>
    /\ lines' = <<>>
    /\ total_duration_secs' = 0
    /\ exit_status' = <<>>
    /\ res' = NotReturned
    /\ sent' = <<>>
    /\ child' = "none"
    /\ stdout_pipe' = 0
    /\ threads' = threads + 1
    /\ spawned' = spawned + 1
    /\ applied' = <<>>

\* terminal.draw(..)?: the frame is drawn, or run returns the error
Draw ==
    /\ pc = "draw"
    /\ \/ pc' = "drain"
       \/ pc' = "exited"
    /\ UNCHANGED <<w_tab, wpc, consumed, buf, lines, total_duration_secs, exit_status,
                   res, sent, chan, threads, child, stdout_pipe>>
    /\ UNCHANGED <<running, is_processing, is_complete, progress, logs, message,
                   active_tab, selected_field, fields, key, should_run, applied, spawned>>

\* try_recv that hands out the newest message first
try_recv_Newest(q) == [msg |-> q[Len(q)], rest |-> SubSeq(q, 1, Len(q) - 1)]

\* rx.try_recv() on a channel that holds q: the message handed out and what stays
try_recv(q) == [msg |-> Head(q), rest |-> Tail(q)]

\* Apply whose Done arm leaves the processing view (is_processing = false)
Apply_DoneIdle(m) ==
    CASE m.kind = "Progress" /\ m.info.type = "Log" ->
            /\ logs' = Append(logs, m.info.line)
            /\ UNCHANGED <<progress, is_processing, is_complete, message>>
      [] m.kind = "Progress" /\ m.info.type = "Percentage" ->
            /\ progress' = m.info.p
            /\ UNCHANGED <<logs, is_processing, is_complete, message>>
      [] m.kind = "Done" ->
            /\ is_processing' = FALSE
            /\ is_complete' = TRUE
            /\ message' = Completed
            /\ progress' = One
            /\ UNCHANGED logs
      [] m.kind = "Error" ->
            /\ is_processing' = FALSE
            /\ message' = ErrorText(m.msg)
            /\ logs' = Append(logs, ErrorText(m.msg))
            /\ UNCHANGED <<progress, is_complete>>

\* the arms of match event
Apply(m) ==
    CASE m.kind = "Progress" /\ m.info.type = "Log" ->
            /\ logs' = Append(logs, m.info.line)
            /\ UNCHANGED <<progress, is_processing, is_complete, message>>
      [] m.kind = "Progress" /\ m.info.type = "Percentage" ->
            /\ progress' = m.info.p
            /\ UNCHANGED <<logs, is_processing, is_complete, message>>
      [] m.kind = "Done" ->
            /\ is_processing' = TRUE
            /\ is_complete' = TRUE
            /\ message' = Completed
            /\ progress' = One
            /\ UNCHANGED logs
      [] m.kind = "Error" ->
            /\ is_processing' = FALSE
            /\ message' = ErrorText(m.msg)
            /\ logs' = Append(logs, ErrorText(m.msg))
            /\ UNCHANGED <<progress, is_complete>>

\* while let Ok(event) = rx.try_recv(): one message is there and is applied
DrainRecv ==
    /\ pc = "drain"
    /\ chan # <<>>
    /\ LET r == try_recv(chan)
       IN  /\ chan' = r.rest
           /\ applied' = Append(applied, r.msg)
           /\ Apply(r.msg)
    /\ UNCHANGED <<w_tab, wpc, consumed, buf, lines, total_duration_secs, exit_status,
                   res, sent, threads, child, stdout_pipe>>
    /\ UNCHANGED <<running, active_tab, selected_field, fields, pc, key, should_run,
                   spawned>>

\* DrainEnds that goes on only when no worker is running
DrainEnds_Joins ==
    /\ pc = "drain"
    /\ chan = <<>>
    /\ threads = 0
    /\ pc' = (IF running THEN "events" ELSE "exited")
    /\ UNCHANGED <<w_tab, wpc, consumed, buf, lines, total_duration_secs, exit_status,
                   res, sent, chan, threads, child, stdout_pipe>>
    /\ UNCHANGED <<running, is_processing, is_complete, progress, logs, message,
                   active_tab, selected_field, fields, key, should_run, applied, spawned>>

\* try_recv reports the channel empty: the drain is over; if !app.running { break }
DrainEnds ==
    /\ pc = "drain"
    /\ chan = <<>>
    /\ pc' = (IF running THEN "events" ELSE "exited")
    /\ UNCHANGED <<w_tab, wpc, consumed, buf, lines, total_duration_secs, exit_status,
                   res, sent, chan, threads, child, stdout_pipe>>
    /\ UNCHANGED <<running, is_processing, is_complete, progress, logs, message,
                   active_tab, selected_field, fields, key, should_run, applied, spawned>>

\* if let Ok(should_run) = handle_events(&mut app) { .. } on an event of K, at most
\* MaxSpawns workers being started in all and the texts staying within bounds
HandleEvents(K) ==
    /\ pc = "events"
    /\ \E k \in K \cup {NoEvent} : \E offer \in OffersFor(k) :
        LET r == handle_events(App, k, offer)
        IN  /\ WithinBounds(r.app.fields)
            /\ key' = k
            /\ should_run' = r.ret
            /\ running' = r.app.running
            /\ is_complete' = r.app.is_complete
            /\ active_tab' = r.app.active_tab
            /\ selected_field' = r.app.selected_field
            /\ fields' = r.app.fields
            /\ IF r.ret /\ ~Rejected(r.app)
               THEN /\ spawned < MaxSpawns
                    /\ is_processing' = TRUE
                    /\ progress' = Zero
                    /\ logs' = <<>>
                    /\ message' = Starting
                    /\ execute_command(r.app.active_tab)
               ELSE /\ message' = (IF r.ret THEN AlreadyProcessing ELSE r.app.message)
                    /\ is_processing' = r.app.is_processing
                    /\ UNCHANGED <<progress, logs>>
                    /\ UNCHANGED <<w_tab, wpc, consumed, buf, lines, total_duration_secs,
                                   exit_status, res, sent, threads, child, stdout_pipe,
                                   applied, spawned>>
    /\ pc' = "draw"
    /\ UNCHANGED chan

HandleUiEvent == HandleEvents(UiKeys)

\* every key on the completed view, the keys of UiKeys elsewhere
HandleKeyEvent == HandleEvents(IF is_complete THEN Keys ELSE UiKeys)

\* run has returned to main, which returns in its turn: the process exits and takes
\* the worker threads with it, wherever they are
ProcessExit ==
    /\ pc = "exited"
    /\ threads > 0
    /\ threads' = 0
    /\ wpc' = "killed"
    /\ UNCHANGED <<w_tab, consumed, buf, lines, total_duration_secs, exit_status, res,
                   sent, chan, child, stdout_pipe, uiVars>>

----------------------------------------------------------------------------
(* App on its own: its methods called in any order *)

\* a method has run and left app
Called(app) ==
    /\ WithinBounds(app.fields)
    /\ active_tab' = app.active_tab
    /\ selected_field' = app.selected_field
    /\ message' = app.message
    /\ fields' = app.fields
    /\ UNCHANGED <<running, is_processing, is_complete, progress, logs, pc, key,
                   should_run, applied, spawned>>
    /\ UNCHANGED <<w_tab, wpc, consumed, buf, lines, total_duration_secs, exit_status,
                   res, sent, chan, threads, child, stdout_pipe>>

CallNextTab == Called(App_next_tab(App))
CallPrevTab == Called(App_prev_tab(App))
CallNextField == Called(App_next_field(App))
CallPrevField == Called(App_prev_field(App))
CallInput == Called(App_input(App, TypedChar))
CallBackspace == Called(App_backspace(App))
CallAutocomplete == \E offer \in Offers : Called(App_autocomplete(App, offer))

----------------------------------------------------------------------------
(* Specifications *)

\* the state right after the first thread::spawn, the tab being one of T
InitWorker(T) ==
    /\ w_tab \in T
    /\ wpc = "start"
    /\ consumed = <<>>
    /\ buf = <<>>
    /\ lines = <<>>
    /\ total_duration_secs = 0
    /\ exit_status = <<>>
    /\ res = NotReturned
    /\ sent = <<>>
    /\ chan = <<>>
    /\ threads = 1
    /\ child = "none"
    /\ stdout_pipe = 0
    /\ running = TRUE
    /\ is_processing = TRUE
    /\ is_complete = FALSE
    /\ progress = Zero
    /\ logs = <<>>
    /\ message = <<"Starting...">>
    /\ active_tab = w_tab
    /\ selected_field = 0
    /\ fields = InitialFields
    /\ pc = "draw"
    /\ key = "Ctrl+E"
    /\ should_run = TRUE
    /\ applied = <<>>
    /\ spawned = 1

RunnerTail == Spawn \/ ReadEof \/ ReadErr \/ Wait \/ WorkerEnd

\* one compress invocation, stderr drawn from the progress-marker alphabet
InitRunner == InitWorker({"Compress"})
NextRunner == compress_video \/ ReadProgressByte \/ RunnerTail
SpecRunner == InitRunner /\ [][NextRunner]_vars

\* one compress invocation, stderr drawn from the raw byte alphabet
InitReader == InitWorker({"Compress"})
NextReader == compress_video \/ ReadRawByte \/ RunnerTail
SpecReader == InitReader /\ [][NextReader]_vars

\* one compress invocation, stderr drawn from the frame= alphabet
InitFrame == InitWorker({"Compress"})
NextFrame == compress_video \/ ReadFrameByte \/ RunnerTail
SpecFrame == InitFrame /\ [][NextFrame]_vars

\* one invocation of any of the five operations
InitAll == InitWorker(Tabs)
NextWorker ==
    \/ combine_videos \/ compress_video \/ add_music \/ timelapse \/ get_info
    \/ ReadWorkerByte \/ RunnerTail
SpecWorker == InitAll /\ [][NextWorker]_vars

\* the interactive loop from App::new() on, with the workers it starts
InitUi ==
    /\ w_tab = "Combine"
    /\ wpc = "idle"
    /\ consumed = <<>>
    /\ buf = <<>>
    /\ lines = <<>>
    /\ total_duration_secs = 0
    /\ exit_status = <<>>
    /\ res = NotReturned
    /\ sent = <<>>
    /\ chan = <<>>
    /\ threads = 0
    /\ child = "none"
    /\ stdout_pipe = 0
    /\ running = TRUE
    /\ is_processing = FALSE
    /\ is_complete = FALSE
    /\ progress = Zero
    /\ logs = <<>>
    /\ message = <<>>
    /\ active_tab = "Combine"
    /\ selected_field = 0
    /\ fields = InitialFields
    /\ pc = "draw"
    /\ key = NoEvent
    /\ should_run = FALSE
    /\ applied = <<>>
    /\ spawned = 0
NextUi ==
    \/ Draw \/ DrainRecv \/ DrainEnds \/ HandleUiEvent \/ ProcessExit
    \/ combine_videos \/ compress_video \/ add_music \/ timelapse \/ get_info
    \/ ReadUiByte \/ RunnerTail
SpecUi == InitUi /\ [][NextUi]_vars

\* the interactive loop, every key being pressed on the completed view
NextKeys ==
    \/ Draw \/ DrainRecv \/ DrainEnds \/ HandleKeyEvent \/ ProcessExit
    \/ combine_videos \/ compress_video \/ add_music \/ timelapse \/ get_info
    \/ ReadUiByte \/ RunnerTail
SpecKeys == InitUi /\ [][NextKeys]_vars

\* App from App::new() on, its methods called in any order
NextApp ==
    \/ CallNextTab \/ CallPrevTab \/ CallNextField \/ CallPrevField
    \/ CallInput \/ CallBackspace \/ CallAutocomplete
SpecApp == InitUi /\ [][NextApp]_vars

\* one compress invocation whose child also writes to stdout, every step of the
\* worker being taken in the end when it can be and the child closing stderr and
\* exiting in the end unless it is blocked
NextLive == compress_video \/ ReadWorkerByte \/ RunnerTail \/ ChildWritesStdout
FairLive ==
    /\ WF_vars(compress_video)
    /\ WF_vars(Spawn)
    /\ WF_vars(ReadEof)
    /\ WF_vars(Wait)
    /\ WF_vars(WorkerEnd)
SpecLive == InitRunner /\ [][NextLive]_vars /\ FairLive

----------------------------------------------------------------------------
(* What the properties read off a state *)

\* the ProgressInfo values delivered so far, in order
Delivered ==
    LET ps == SelectSeq(sent, LAMBDA m : m.kind = "Progress")
    IN  [i \in 1..Len(ps) |-> ps[i].info]

\* the values of the Percentage events delivered so far, in order
Percentages ==
    LET ps == SelectSeq(Delivered, LAMBDA e : e.type = "Percentage")
    IN  [i \in 1..Len(ps) |-> ps[i].p]

\* the lines of the Log events delivered so far, in order
Logged ==
    LET ls == SelectSeq(Delivered, LAMBDA e : e.type = "Log")
    IN  [i \in 1..Len(ls) |-> ls[i].line]

IsTerminal(m) == m.kind \in {"Done", "Error"}

\* the bytes the child wrote, without the end-of-stream mark
Stream == SelectSeq(consumed, LAMBDA b : b \notin {"EOF", "ERR"})

\* the stream has ended (EOF or read error) and the process was awaited
Exited == exit_status # <<>>
ExitedWith(status) == exit_status = <<status>>

\* the pieces of a byte sequence between bytes of T, the piece after the last one
\* left out; cur is the piece being collected
RECURSIVE SplitAt(_, _, _)
SplitAt(bytes, T, cur) ==
    IF bytes = <<>> THEN <<>>
    ELSE IF Head(bytes) \in T
         THEN <<cur>> \o SplitAt(Tail(bytes), T, <<>>)
         ELSE SplitAt(Tail(bytes), T, Append(cur, Head(bytes)))

NonEmpty(ls) == SelectSeq(ls, LAMBDA l : l # <<>>)

HasDuration(line) == \E i \in 1..Len(line) : line[i] \in DurationChunks
HasTime(line) == \E i \in 1..Len(line) : line[i] \in TimeChunks
DurationOf(line) == Secs(DurationCaps(line[FirstIn(line, DurationChunks)]))
TimeOf(line) == Secs(TimeCaps(line[FirstIn(line, TimeChunks)]))

\* the Percentage values a first-wins extractor computes for the lines ls; set
\* tells whether a Duration line came before them, total is what it recorded
RECURSIVE FirstWinsPercentages(_, _, _)
FirstWinsPercentages(ls, set, total) ==
    IF ls = <<>> THEN <<>>
    ELSE LET line == Head(ls)
             first == ~set /\ HasDuration(line)
             t == IF first THEN DurationOf(line) ELSE total
         IN  (IF t > 0 /\ HasTime(line) THEN <<Fraction(TimeOf(line), t)>> ELSE <<>>)
             \o FirstWinsPercentages(Tail(ls), set \/ first, t)

\* the forced Percentage(1.0) of a successful exit
Forced == IF ExitedWith(0) THEN <<One>> ELSE <<>>

NonDecreasing(ps) == \A i \in 1..(Len(ps) - 1) : Leq(ps[i], ps[i + 1])

----------------------------------------------------------------------------
(* Properties *)

\* C1: within one invocation the total duration is the one of the first line that
\* matches the Duration pattern: every Percentage computed for a line is
\* min(current / first total, 1.0), also after a later Duration line with another
\* value.
C1_FirstDurationWins ==
    Percentages = FirstWinsPercentages(NonEmpty(SplitAt(Stream, Terminators, <<>>)), FALSE, 0)
                  \o Forced

\* C2: the worker sends zero or more Progress messages and then exactly one
\* terminal message (Done or Error): a terminal message is only ever the last
\* message, it is there once the worker has finished, and nothing follows it.
C2_OneTerminalLast ==
    /\ \A i \in 1..Len(sent) :
          IsTerminal(sent[i]) => (i = Len(sent) /\ wpc = "finished")
    /\ wpc = "finished" => (Len(sent) >= 1 /\ IsTerminal(sent[Len(sent)]))

\* C2 witness: a finished worker whose terminal message follows two or more
\* Progress messages.
C2_Witness ==
    /\ wpc = "finished"
    /\ Len(sent) >= 3
    /\ IsTerminal(sent[Len(sent)])
    /\ \A i \in 1..(Len(sent) - 1) : sent[i].kind = "Progress"

\* C3: within one invocation the Percentage values delivered never decrease.
C3_PercentagesNeverDecrease == NonDecreasing(Percentages)

\* C4: whenever the process exits with status 0, the last ProgressInfo delivered is
\* Percentage(1.0) and the function returns success, whatever the stream held.
C4_SuccessEndsWithFullPercentage ==
    ExitedWith(0) =>
        /\ Delivered # <<>>
        /\ Delivered[Len(Delivered)] = Percentage(One)
        /\ res = Ok

\* C4 witness: a successful exit after a stream whose last time= value gave a
\* fraction below 1.
C4_Witness ==
    /\ ExitedWith(0)
    /\ Len(Percentages) >= 2
    /\ ~Leq(One, Percentages[Len(Percentages) - 1])
    /\ Percentages[Len(Percentages)] = One

\* C4 second case, no Duration and no time= line at all: reached as well
C4_NoMarkers ==
    /\ ExitedWith(0)
    /\ Percentages = <<One>>

\* C5: whenever the process exits with a non-zero status, waiting for it adds no
\* forced Percentage(1.0) (nothing is delivered after the stream closes), the
\* function returns a failure whose message holds the exit status, and the worker's
\* terminal message is Error carrying that message, never Done.
C5_FailureStep ==
    (wpc = "closed" /\ exit_status' # <<>> /\ exit_status' # <<0>>) =>
        /\ sent' = sent
        /\ res'.state = "Err"
        /\ res'.msg.status = exit_status'

C5_FailureOutcome ==
    (Exited /\ ~ExitedWith(0)) =>
        /\ res.state = "Err"
        /\ res.msg.status = exit_status
        /\ \A i \in 1..Len(sent) : sent[i].kind # "Done"
        /\ wpc = "finished" => sent[Len(sent)] = Error(res.msg)

\* C5: a non-zero exit forces no Percentage(1.0), returns a failure holding the
\* status, and ends the worker with Error, never Done (the step and the outcome).
C5_NonZeroExitGivesError == [][C5_FailureStep]_vars /\ []C5_FailureOutcome

\* C5 witness: a worker that finished after a non-zero exit, its last message the
\* Error with the status, the stream having delivered a Percentage before.
C5_Witness ==
    /\ wpc = "finished"
    /\ ExitedWith(1)
    /\ sent[Len(sent)].kind = "Error"
    /\ sent[Len(sent)].msg.status = <<1>>
    /\ Percentages # <<>>

\* C6: no Percentage is computed while the total duration is not strictly positive:
\* a line read while the total, after that line's own Duration match, is not above
\* 0 delivers no Percentage; and while the stream holds no Duration marker the
\* only Percentage delivered is the forced Percentage(1.0) of a successful exit,
\* and none at all otherwise.
C6_LineStep ==
    (wpc = "reading" /\ wpc' = "reading" /\ total_duration_secs' <= 0)
        => Percentages' = Percentages

C6_NoDurationSeen ==
    (\A i \in 1..Len(Stream) : Stream[i] \notin DurationChunks) => Percentages = Forced

\* C6: no Percentage without a strictly positive total (the step and the state).
C6_NoPercentageWithoutTotal == [][C6_LineStep]_vars /\ []C6_NoDurationSeen

\* C6 witness: a completed time= line, no Duration line, a successful exit and the
\* forced value as the only Percentage.
C6_Witness ==
    /\ ExitedWith(0)
    /\ total_duration_secs = 0
    /\ \E i \in 1..Len(lines) : HasTime(lines[i])
    /\ Percentages = <<One>>

\* C6, a Duration line of 0 s: the total is set, to 0, and the time= line after it
\* delivers nothing
C6_WitnessZeroDuration ==
    /\ total_duration_secs = 0
    /\ Len(lines) = 2
    /\ HasDuration(lines[1]) /\ DurationOf(lines[1]) = 0
    /\ HasTime(lines[2])
    /\ Percentages = <<>>

\* C6 second case, a failed exit after a time= line without a total: no Percentage
C6_WitnessFailure ==
    /\ Exited /\ ~ExitedWith(0)
    /\ total_duration_secs = 0
    /\ \E i \in 1..Len(lines) : HasTime(lines[i])
    /\ Percentages = <<>>

\* C7: every Percentage value delivered lies in [0.0, 1.0], also when a time=
\* value exceeds the recorded duration.
C7_PercentageInUnitInterval ==
    \A i \in 1..Len(Percentages) :
        Leq(Zero, Percentages[i]) /\ Leq(Percentages[i], One)

\* C7 witness: duration 10 s, then time= 15 s, delivered as 1.0 while still reading.
C7_Witness ==
    /\ wpc = "reading"
    /\ total_duration_secs = 10
    /\ lines # <<>>
    /\ HasTime(lines[Len(lines)])
    /\ TimeOf(lines[Len(lines)]) = 15
    /\ Percentages # <<>>
    /\ Percentages[Len(Percentages)] = One

\* the stream so far consists only of complete lines, each ended by \n
OnlyCompleteLfLines == Stream = <<>> \/ Stream[Len(Stream)] = LF
NoCr == \A i \in 1..Len(Stream) : Stream[i] # CR

\* C8 as stated: for a stream of complete \n-terminated lines, empty ones included,
\* the reader produces exactly those lines, terminators stripped, same order, same
\* number.
C8_ExactlyTheLines ==
    OnlyCompleteLfLines => lines = SplitAt(Stream, {LF}, <<>>)

\* C8 as amended: for a stream of complete \n-terminated lines with no \r byte,
\* the reader produces exactly the non-empty ones, terminators stripped, in order,
\* each as from_utf8_lossy decodes it.
C8_ExactlyTheNonEmptyLines ==
    (OnlyCompleteLfLines /\ NoCr) =>
        LET expected == NonEmpty(SplitAt(Stream, {LF}, <<>>))
        IN  lines = [i \in 1..Len(expected) |-> from_utf8_lossy(expected[i])]

\* C8 witness: two different lines with an empty line between them, all read.
C8_Witness ==
    /\ OnlyCompleteLfLines /\ NoCr
    /\ Len(lines) = 2
    /\ lines[1] # lines[2]
    /\ \E i \in 1..(Len(Stream) - 1) : Stream[i] = LF /\ Stream[i + 1] = LF

\* C9: \r and \n both end the line and a terminator met with an empty buffer emits
\* nothing: no line built, and no line logged, is empty or holds a \r or \n, and
\* the buffer never holds a terminator.
C9_NoEmptyLineNoTerminatorInside ==
    /\ \A i \in 1..Len(lines) :
          lines[i] # <<>> /\ \A j \in 1..Len(lines[i]) : lines[i][j] \notin Terminators
    /\ \A i \in 1..Len(Logged) :
          Logged[i] # <<>> /\ \A j \in 1..Len(Logged[i]) : Logged[i][j] \notin Terminators
    /\ \A j \in 1..Len(buf) : buf[j] \notin Terminators

\* C9 witness: a line ended by \r\n, one more line ended by \r, two lines built.
C9_Witness ==
    /\ Len(Stream) = 5
    /\ Stream[2] = CR /\ Stream[3] = LF /\ Stream[5] = CR
    /\ Len(lines) = 2

\* C10: at end of stream the bytes accumulated since the last terminator are
\* discarded: closing the stream on a partial line delivers nothing, builds no
\* line and leaves the total duration alone, and so does waiting for the process,
\* but for the forced Percentage(1.0) of a successful exit.
C10_CloseStep ==
    (wpc = "reading" /\ wpc' = "closed" /\ buf # <<>>) =>
        /\ sent' = sent
        /\ lines' = lines
        /\ total_duration_secs' = total_duration_secs

C10_AfterCloseStep ==
    (wpc = "closed" /\ buf # <<>>) =>
        /\ lines' = lines
        /\ total_duration_secs' = total_duration_secs
        /\ Len(sent') <= Len(sent) + 1
        /\ \A i \in (Len(sent) + 1)..Len(sent') : sent'[i] = Progress(Percentage(One))

\* C10: the partial line at end of stream is discarded: no Log, no Percentage, no
\* change of the total, at the close and after it.
C10_PartialLineDiscarded == [][C10_CloseStep /\ C10_AfterCloseStep]_vars

\* C10 witness: the stream ended inside a line holding a Duration marker after a
\* complete line; the worker finished and the total is still 0.
C10_Witness ==
    /\ wpc = "finished"
    /\ HasDuration(buf)
    /\ lines # <<>>
    /\ consumed[Len(consumed)] = "EOF"
    /\ total_duration_secs = 0
    /\ Stream[Len(Stream)] \notin Terminators

\* C10 second case: the partial line holds a time= marker, the total is known and
\* no Percentage was delivered for it
C10_WitnessTime ==
    /\ wpc = "finished"
    /\ HasTime(buf)
    /\ consumed[Len(consumed)] = "EOF"
    /\ total_duration_secs > 0
    /\ Percentages = Forced

\* the step completes a line: the line
LineCompleted == lines' # lines
NewLine == lines'[Len(lines')]

\* what the operation logs before it calls run_ffmpeg_with_progress
GreetingLines ==
    IF wpc = "start" \/ w_tab = "Info" THEN <<>>
    ELSE <<Greeting(w_tab)[1].line>>

\* C11 (state): the lines logged are, after the operation's greeting, exactly the
\* completed lines that do not begin with frame=, once each and in order.
C11_LoggedLines ==
    Logged = GreetingLines
             \o SelectSeq(lines, LAMBDA l : l[1] # FramePrefix)

\* C11 (step): a completed line that begins with frame= sends no Log, its
\* Duration match still sets the total, and its time= match with a positive total
\* still sends exactly one Percentage.
C11_FrameLineStep ==
    (LineCompleted /\ NewLine[1] = FramePrefix) =>
        /\ Logged' = Logged
        /\ HasDuration(NewLine) => total_duration_secs' = DurationOf(NewLine)
        /\ (HasTime(NewLine) /\ total_duration_secs' > 0) =>
              /\ Len(sent') = Len(sent) + 1
              /\ sent'[Len(sent')].info.type = "Percentage"

\* C11: every completed line is forwarded as exactly one Log, except the lines
\* that begin with frame=, which are never logged; extraction still runs on them.
C11_LogAllButFrameLines == [][C11_FrameLineStep]_vars /\ []C11_LoggedLines

\* C11 witness: a Duration line, logged, then a frame= line holding time=, not
\* logged, for which one Percentage was delivered.
C11_Witness ==
    /\ Len(lines) = 2
    /\ HasDuration(lines[1]) /\ lines[1][1] # FramePrefix
    /\ lines[2][1] = FramePrefix /\ HasTime(lines[2])
    /\ Logged = GreetingLines \o <<lines[1]>>
    /\ Len(Percentages) = 1

\* C12 (step): a completed line that matches time= while the total, after the
\* line's own Duration match, is positive sends exactly one Percentage, of value
\* min(current / total, 1.0) with current = hours*3600 + minutes*60 + seconds.
C12_TimeLineStep ==
    (LineCompleted /\ HasTime(NewLine) /\ total_duration_secs' > 0) =>
        LET caps == TimeCaps(NewLine[FirstIn(NewLine, TimeChunks)])
            current == caps[1] * 3600 + caps[2] * 60 + caps[3]
            p == Percentages'[Len(Percentages')]
        IN  /\ Len(Percentages') = Len(Percentages) + 1
            /\ sent'[Len(sent')] = Progress(Percentage(p))
            /\ IF current >= total_duration_secs'
               THEN p = One
               ELSE p.num * total_duration_secs' = p.den * current

\* C12 (state): Duration 00:01:30 then time=00:00:45 gives exactly one Percentage, 0.5.
C12_Example ==
    lines = << <<"Duration: 00:01:30.00">>, <<"time=00:00:45.00">> >>
        => (total_duration_secs = 90 /\ Percentages = <<[num |-> 1, den |-> 2]>> \o Forced)

\* C12: every completed time= line with a positive total sends exactly one
\* Percentage, min(current / total, 1.0), both in seconds from H:MM:SS.
C12_OnePercentagePerTimeLine == [][C12_TimeLineStep]_vars /\ []C12_Example

\* C12 witness: Duration 00:01:30, then time=00:00:45, and Percentage(0.5) as the
\* one Percentage delivered.
C12_Witness ==
    /\ wpc = "reading"
    /\ lines = << <<"Duration: 00:01:30.00">>, <<"time=00:00:45.00">> >>
    /\ Percentages = <<[num |-> 1, den |-> 2]>>

\* the stream ended by an I/O error of reader.read
ReadFailed == consumed # <<>> /\ consumed[Len(consumed)] = "ERR"

\* C16 (step): the read error delivers nothing and builds no line (the partial
\* line stays in buf), and the process is awaited next.
C16_ErrorStep ==
    (wpc = "reading" /\ ReadFailed') =>
        /\ sent' = sent
        /\ lines' = lines
        /\ total_duration_secs' = total_duration_secs
        /\ wpc' = "closed"
        /\ res' = NotReturned

\* C16 (state): after a read error the function has returned only once the
\* process was awaited, and the exit status alone decides: 0 gives the forced
\* Percentage(1.0) and success, non-zero the failure with that status.
C16_Outcome ==
    ReadFailed =>
        /\ res.state # "running" => (Exited \/ res = Err(Msg("wait: io error")))
        /\ ExitedWith(0) =>
              (res = Ok /\ Delivered[Len(Delivered)] = Percentage(One))
        /\ (Exited /\ ~ExitedWith(0)) =>
              (res.state = "Err" /\ res.msg.status = exit_status)

\* C16: an I/O error while reading the stream is not a failure of its own.
C16_ReadErrorIsNotFailure == [][C16_ErrorStep]_vars /\ []C16_Outcome

\* C16 witness: a read error inside a line, then exit status 0, the forced
\* Percentage(1.0) and success.
C16_Witness ==
    /\ ReadFailed
    /\ buf # <<>>
    /\ lines # <<>>
    /\ ExitedWith(0)
    /\ res = Ok
    /\ Percentages[Len(Percentages)] = One

\* C16 second case: a read error, then a non-zero exit and the failure
C16_WitnessFailure ==
    /\ ReadFailed
    /\ ExitedWith(1)
    /\ res.state = "Err"

\* the operation failed because ffmpeg or ffprobe could not be started
SpawnFailed ==
    /\ res.state = "Err"
    /\ res.msg.text \in {"Failed to start ffmpeg", "Failed to run ffprobe",
                         "Failed to execute ffprobe"}

\* C17 as stated: when the external process cannot be started the consumer gets no
\* Log and no Percentage, and the terminal Error is the only channel message.
C17_NoEventsOnSpawnFailure ==
    (SpawnFailed /\ wpc = "finished") => sent = <<Error(res.msg)>>

\* C17 as amended: when the external process cannot be started,
\* run_ffmpeg_with_progress (and the ffprobe call before it) sends nothing: the
\* consumer gets no Percentage and no Log but the operation's greeting line, sent
\* before the start is attempted (none for Info), and then the terminal Error.
C17_OnlyGreetingOnSpawnFailure ==
    SpawnFailed =>
        /\ Percentages = <<>>
        /\ Logged = GreetingLines
        /\ wpc = "finished" => sent = callback(Delivered) \o <<Error(res.msg)>>

\* C17 witness: compress could not start ffmpeg; the worker sent the greeting and
\* the Error.
C17_Witness ==
    /\ wpc = "finished"
    /\ w_tab = "Compress"
    /\ res = Err(Msg("Failed to start ffmpeg"))
    /\ sent = <<Progress(Log(<<"Compressing video...">>)), Error(res.msg)>>

\* C17, Info: ffprobe could not be executed and the Error is the only message
C17_WitnessInfo ==
    /\ wpc = "finished"
    /\ w_tab = "Info"
    /\ SpawnFailed
    /\ Len(sent) = 1

IsPrefix(a, b) == Len(a) <= Len(b) /\ \A i \in 1..Len(a) : a[i] = b[i]
NewMessages == SubSeq(sent', Len(sent) + 1, Len(sent'))

\* C19 (step): messages are only ever added at the end; a completed line adds its
\* Log (if any) and then its Percentage (if any), nothing else; the wait adds at
\* most the forced Percentage(1.0); the end of the worker adds the terminal message.
C19_AppendStep ==
    /\ IsPrefix(sent, sent')
    /\ LineCompleted =>
          \E p \in {<<>>} \cup {<<Progress(Percentage(q))>> : q \in {Percentages'[i] : i \in 1..Len(Percentages')}} :
              NewMessages \in {p, <<Progress(Log(NewLine))>> \o p}
    /\ (wpc = "closed") =>
          NewMessages = (IF exit_status' = <<0>> THEN <<Progress(Percentage(One))>> ELSE <<>>)
    /\ (wpc = "returned") => (Len(NewMessages) = 1 /\ IsTerminal(NewMessages[1]))

\* C19 (state): on success the forced Percentage(1.0) is the last Progress message
\* and Done comes right after it.
C19_SuccessTail ==
    (ExitedWith(0) /\ wpc = "finished") =>
        /\ sent[Len(sent)] = Done
        /\ sent[Len(sent) - 1] = Progress(Percentage(One))

\* C19: events reach the consumer in stream order: a line's Log before its
\* Percentage, earlier lines before later ones, the forced Percentage(1.0) after
\* all of them and before Done.
C19_StreamOrder == [][C19_AppendStep]_vars /\ []C19_SuccessTail

\* C19 witness: a line that gave a Log and a Percentage, in that order, then the
\* forced Percentage(1.0), then Done.
C19_Witness ==
    /\ wpc = "finished"
    /\ Len(lines) = 1
    /\ Len(sent) = 5
    /\ sent[2] = Progress(Log(lines[1]))
    /\ sent[3].info.type = "Percentage" /\ sent[3].info.p # One
    /\ sent[4] = Progress(Percentage(One))
    /\ sent[5] = Done

----------------------------------------------------------------------------
(* Properties of the interactive loop *)

\* a worker was started and its terminal message has not been received yet
AwaitingTerminal ==
    /\ spawned > 0
    /\ \A i \in 1..Len(applied) : ~IsTerminal(applied[i])

\* this step is handle_events returning, with what it returned in should_run'
EventHandled == pc = "events" /\ pc' = "draw"

\* this step is a thread::spawn
Spawning == spawned' # spawned

\* nothing of the worker changes in this step
WorkerUntouched ==
    UNCHANGED <<w_tab, wpc, consumed, buf, lines, total_duration_secs, exit_status,
                res, sent, child, stdout_pipe, threads>>

\* C13 (step): a request to start that arrives while the terminal message of the
\* running worker is still awaited is turned down: the message becomes "Already
\* processing...", nothing is spawned, progress, logs and is_processing stay; and a
\* thread is only ever spawned by a request that arrives outside that window.
C13_RequestStep ==
    /\ (EventHandled /\ should_run' /\ AwaitingTerminal) =>
          /\ message' = <<"Already processing...">>
          /\ ~Spawning
          /\ WorkerUntouched
          /\ UNCHANGED <<progress, logs, is_processing>>
    /\ Spawning => (EventHandled /\ should_run' /\ ~AwaitingTerminal /\ threads = 0)

\* C13: at most one worker is active at any time; requests that arrive before the
\* worker's terminal message is consumed are rejected, never queued or run
\* concurrently.
C13_OneWorkerAtATime == [][C13_RequestStep]_vars /\ [](threads <= 1)

\* C13 witness: a request was turned down while the worker was reading the stream.
C13_Witness ==
    /\ wpc = "reading"
    /\ threads = 1
    /\ should_run
    /\ message = <<"Already processing...">>
    /\ is_processing
    /\ spawned = 1

\* the log entries that the messages ms add, in order
LogsOf(ms) ==
    LET ls == SelectSeq(ms, LAMBDA m : m.kind = "Error" \/ (m.kind = "Progress" /\ m.info.type = "Log"))
    IN  [i \in 1..Len(ls) |->
            IF ls[i].kind = "Error" THEN <<"Error: ">> \o Display(ls[i].msg) ELSE ls[i].info.line]

\* the progress that the messages ms leave, from 0.0
ProgressOf(ms) ==
    LET ps == SelectSeq(ms, LAMBDA m : m.kind = "Done" \/ (m.kind = "Progress" /\ m.info.type = "Percentage"))
    IN  IF ps = <<>> THEN Zero
        ELSE IF ps[Len(ps)].kind = "Done" THEN One ELSE ps[Len(ps)].info.p

\* C14 (state): what the loop has applied, followed by what waits in the channel, is
\* what the worker sent; every applied message has had its own effect on logs and
\* progress; and when the channel is empty the drain can end at once.
C14_NothingLostOrReordered ==
    /\ IsPrefix(applied, sent)
    /\ (pc # "exited") => (applied \o chan = sent)
    /\ logs = LogsOf(applied)
    /\ progress = ProgressOf(applied)
    /\ (pc = "drain" /\ chan = <<>>) => ENABLED DrainEnds

\* C14 (step): a receive takes the oldest waiting message and only that one; the
\* drain is left only when the channel is empty.
C14_DrainStep ==
    /\ (applied' # applied /\ ~Spawning) =>
          /\ chan # <<>>
          /\ applied' = Append(applied, chan[1])
          /\ chan' = SubSeq(chan, 2, Len(chan))
    /\ (pc = "drain" /\ pc' # "drain") => chan = <<>>

\* C14: the loop applies the worker's messages in the order sent, none lost,
\* duplicated, reordered or coalesced, and the drain never blocks: it takes what is
\* there and stops when the channel is empty.
C14_OrderedNonBlockingDrain == [][C14_DrainStep]_vars /\ []C14_NothingLostOrReordered

\* C14 witness: in the middle of a drain the loop has applied a Log, and a
\* Percentage and the terminal message wait in the channel, in that order.
C14_Witness ==
    /\ pc = "drain"
    /\ Len(applied) >= 1
    /\ applied[Len(applied)].kind = "Progress"
    /\ Len(chan) = 2
    /\ chan[1] = Progress(Percentage(One))
    /\ chan[2] = Done

\* C18 (step): receiving Error(e) sets the message to "Error: " followed by e,
\* appends the same text to logs, clears is_processing and spawns nothing; a thread
\* is only ever spawned by handle_events returning true.
C18_ErrorStep ==
    /\ (pc = "drain" /\ chan # <<>> /\ chan[1].kind = "Error" /\ chan' # chan) =>
          LET text == <<"Error: ">> \o Display(chan[1].msg)
          IN  /\ message' = text
              /\ logs' = Append(logs, text)
              /\ is_processing' = FALSE
              /\ ~Spawning
              /\ WorkerUntouched
    /\ Spawning => (EventHandled /\ should_run')

\* C18: consuming Error(e) shows "Error: " + e as the message and as the last log
\* entry, clears is_processing, and starts no worker without a new request.
C18_ErrorShownNoRetry == [][C18_ErrorStep]_vars

\* C18 witness: a failed run (non-zero exit status) whose Error has been consumed.
C18_Witness ==
    /\ wpc = "finished"
    /\ exit_status = <<1>>
    /\ chan = <<>>
    /\ Len(logs) >= 2
    /\ logs[Len(logs)] = message
    /\ message = <<"Error: ", "ffmpeg failed with status: ", "1">>
    /\ ~is_processing

\* C20 (step): with running false the loop handles no further event and leaves the
\* drain only by exiting; once it has exited, a worker's step changes neither the
\* channel nor any state of the loop.
C20_ExitStep ==
    /\ (~running /\ pc = "drain" /\ pc' # "drain") => pc' = "exited"
    /\ (pc = "exited" /\ wpc' # "killed") => UNCHANGED <<chan, uiVars>>

\* C20 (state): with running false the loop is never at handle_events; the end of
\* the drain does not depend on the worker; after the exit every step of the worker
\* that could be taken before can still be taken.
C20_NeverWaits ==
    /\ ~running => pc # "events"
    /\ (pc = "drain" /\ chan = <<>>) => ENABLED DrainEnds
    /\ (pc = "exited" /\ wpc = "returned") => ENABLED WorkerEnd
    /\ (pc = "exited" /\ wpc = "closed") => ENABLED Wait
    /\ (pc = "exited" /\ wpc = "spawn") => ENABLED Spawn

\* C20 (as stated): the loop never waits for a worker and exits once running is
\* false; a worker that outlives the loop has its sends ignored and keeps running to
\* its end.
C20_WorkerRunsToItsEnd == [][C20_ExitStep]_vars /\ []C20_NeverWaits /\ [](wpc # "killed")

\* C20 (amended): the loop never waits for a worker and exits once running is
\* false; a worker that outlives the loop has its sends ignored, neither blocking
\* nor aborting it, for as long as the process lives.
C20_WorkerAbandoned == [][C20_ExitStep]_vars /\ []C20_NeverWaits

\* C20 witness: the loop exited on running = false while the worker was in flight,
\* and the worker went on to its end, its last messages never entering the channel.
C20_Witness ==
    /\ pc = "exited"
    /\ ~running
    /\ wpc = "finished"
    /\ Len(sent) > Len(applied) + Len(chan)
    /\ IsTerminal(sent[Len(sent)])

----------------------------------------------------------------------------
(* Termination of an invocation *)

\* C15: under fair scheduling every invocation eventually sends its terminal
\* message, whatever amount the child writes to its captured stdout and stderr.
C15_EveryInvocationEnds == <>(sent # <<>> /\ IsTerminal(sent[Len(sent)]))

----------------------------------------------------------------------------
(* Properties of the keys and of the completed view *)

\* this step receives the message at the head of the channel
Receiving == pc = "drain" /\ chan # <<>> /\ chan' # chan

\* C21 (step): receiving Done sets is_complete, keeps is_processing true and sets
\* progress to 1.0; a key handled while is_complete is true clears is_processing,
\* is_complete and the message and does nothing else: no text, tab or field
\* changes, running stays, nothing is asked to run and nothing is spawned.
C21_CompletedStep ==
    /\ (Receiving /\ chan[1] = Done) =>
          /\ is_complete'
          /\ is_processing'
          /\ progress' = One
    /\ (EventHandled /\ is_complete /\ key' \in Keys) =>
          /\ ~is_processing'
          /\ ~is_complete'
          /\ message' = <<>>
          /\ ~should_run'
          /\ ~Spawning
          /\ WorkerUntouched
          /\ UNCHANGED <<fields, active_tab, selected_field, running, progress, logs>>

\* C21: consuming Done shows the completed view with progress 1.0 for every
\* operation, and the next key of any kind only dismisses that view.
C21_DoneThenDismiss == [][C21_CompletedStep]_vars

\* C21 witness: Info completed without a single Percentage, progress is 1.0, and
\* Ctrl+C was the key that dismissed the view: the loop is still running.
C21_Witness ==
    /\ w_tab = "Info"
    /\ wpc = "finished"
    /\ Percentages = <<>>
    /\ applied = sent
    /\ sent[Len(sent)] = Done
    /\ progress = One
    /\ key = "Ctrl+C"
    /\ running
    /\ ~is_complete /\ ~is_processing
    /\ message = <<>>
    /\ spawned = 1

\* C21 witness: a text key dismissed the completed view and typed nothing.
C21_WitnessChar ==
    /\ wpc = "finished"
    /\ applied = sent
    /\ sent[Len(sent)] = Done
    /\ key = "Char"
    /\ ~is_complete /\ ~is_processing
    /\ fields = InitialFields

\* C22 (step): a quit key that is handled and clears running spawns nothing and
\* leaves is_processing, progress and logs as they are.
C22_QuitStep ==
    (EventHandled /\ key' \in {"Ctrl+C", "Esc"} /\ ~running') =>
        /\ ~Spawning
        /\ UNCHANGED <<is_processing, progress, logs>>

\* C22: a key press that quits the loop (Ctrl+C or Esc) never starts an invocation.
C22_QuitStartsNothing == [][C22_QuitStep]_vars

\* the set of elements of a sequence
Range(q) == {q[i] : i \in 1..Len(q)}

\* C23 (step): a thread is spawned only when no worker runs, the channel is empty
\* and everything the previous worker sent, its terminal message last, has been
\* applied; the spawn leaves progress 0.0 and logs empty.
C23_AcceptStep ==
    Spawning =>
        /\ threads = 0
        /\ chan = <<>>
        /\ applied = sent
        /\ (spawned > 0) => (sent # <<>> /\ IsTerminal(sent[Len(sent)]))
        /\ progress' = Zero
        /\ logs' = <<>>

\* C23 (state): since the last spawn the loop has applied messages of the worker
\* spawned then and of no other: every log entry and the progress value are that
\* worker's.
C23_OnlyCurrentWorker ==
    (spawned > 0) =>
        /\ IsPrefix(applied, sent)
        /\ Range(logs) \subseteq Range(LogsOf(sent))
        /\ progress \in {Zero} \cup {ProgressOf(SubSeq(sent, 1, i)) : i \in 1..Len(sent)}

\* C23: log and progress state never mix invocations: a request is accepted only
\* after all messages of the previous worker were consumed, and what is applied
\* afterwards comes from the new worker.
C23_NoMixing == [][C23_AcceptStep]_vars /\ []C23_OnlyCurrentWorker

\* C23 witness: the second invocation (compress, after a run on another tab) has had
\* its first message applied, and the log holds that message alone.
C23_Witness ==
    /\ spawned = 2
    /\ w_tab = "Compress"
    /\ Len(applied) = 1
    /\ logs = << <<"Compressing video...">> >>
    /\ progress = Zero

\* C24: is_complete implies is_processing, in every reachable state of the loop.
C24_CompleteImpliesProcessing == is_complete => is_processing

\* C24 witness: the completed view is up and the loop waits for a key.
C24_Witness ==
    /\ is_complete
    /\ is_processing
    /\ pc = "events"
    /\ wpc = "finished"

\* C25 (step): a call that changes the tab leaves selected_field 0; a call that
\* moves the field on the same tab goes one up or one down, around the ends.
C25_MoveStep ==
    LET n == get_field_count(active_tab)
    IN  /\ (active_tab' # active_tab) => selected_field' = 0
        /\ (active_tab' = active_tab /\ selected_field' # selected_field) =>
              selected_field' \in {(selected_field + 1) % n, (selected_field + n - 1) % n}

\* C25 (state): selected_field is below the number of fields of the active tab.
C25_InRange ==
    /\ selected_field \in 0..(get_field_count(active_tab) - 1)
    /\ get_field_count(active_tab) =
          (CASE active_tab = "Combine" -> 2 [] active_tab = "Compress" -> 3
             [] active_tab = "AddMusic" -> 4 [] active_tab = "Timelapse" -> 3
             [] active_tab = "Info" -> 1)

\* C25: after any sequence of next_tab, prev_tab, next_field and prev_field from
\* App::new(), selected_field is less than the number of fields of the active tab;
\* tab changes reset it to 0 and field moves wrap around at both ends.
C25_SelectedFieldInRange == [][C25_MoveStep]_vars /\ []C25_InRange

\* C25 witness: the last field of the tab with the most fields is selected and its
\* text was edited.
C25_Witness ==
    /\ active_tab = "AddMusic"
    /\ selected_field = 3
    /\ fields.music_reduce # InitialFields.music_reduce

====
